---- MODULE Spec2Model ----
(***************************************************************************)
(* A model of gammapy/modeling/sampler.py (Sampler, SamplerResult,         *)
(* SamplerLikelihood) and of the batch simulation exercised by             *)
(* gammapy/spectrum/tests/test_simulation.py.                              *)
(*                                                                         *)
(* Numbers: parameter values, errors and statistics are integers.  The     *)
(* value returned by SamplerLikelihood.fcn is kept DOUBLED (fcnRet2 is     *)
(* twice the Python return value), so that the factor -0.5 stays exact.    *)
(* The sample covariance is kept multiplied by M * (M - 1), M the number   *)
(* of draws, for the same reason.                                          *)
(***************************************************************************)
EXTENDS Integers, Sequences, FiniteSets, TLC

(* ------------------------------ bounds --------------------------------- *)
\* number of parameters of the model set (free and frozen together)
NPars == 3
\* likelihood evaluations the engine makes before it returns or fails
MaxCalls == 2
\* longest posterior mean / stdev list, and widest sample matrix, handed to
\* a direct call of _update_models
MaxPostLen == 3
\* rows (draws) of every sample matrix
NumDraws == 2
\* seeds of one batch simulation
MaxSeeds == 3
\* reconstructed-energy bins of a simulated observation
NumBins == 2

\* The posterior summaries an engine may report: mean[i] = m + i and
\* stdev[i] = s * i, so that every position holds a different number.
PostMeans == {30, 40}
PostStdevs == {1, 2}
SampleKinds == {"a", "b"}
CubeVals == {0, 1}
SeedVals == {0, 1, 23}
Backends == {"ultranest", "emcee"}
EngineErrors == {"EngineError"}

(* ------------------------------ helpers -------------------------------- *)
\* all sequences over S of length 0..n
SeqsUpTo(S, n) == UNION {[1..k -> S] : k \in 0..n}

RECURSIVE SumTo(_, _)
SumTo(f, n) == IF n = 0 THEN 0 ELSE f[n] + SumTo(f, n - 1)

(* --------------------------- the model set ----------------------------- *)
\* A prior: a uniform prior on [min, max]; NoPrior is Python's None.
NoPrior == [kind |-> "None", min |-> 0, max |-> 0]
UniformPrior(i) == [kind |-> "uniform", min |-> 10 * i, max |-> 10 * i + 5]

\* prior._inverse_cdf(u) for a cube coordinate u in {0, 1}
InverseCdf(prior, u) == prior.min + u * (prior.max - prior.min)

\* The parameters of the model set before anything ran: parameter i has
\* value 100 + i and error 9; each is frozen or free, with or without prior.
InitialParameters ==
    { [i \in 1..NPars |-> [value  |-> 100 + i,
                           error  |-> 9,
                           frozen |-> fr[i],
                           prior  |-> IF pr[i] THEN UniformPrior(i) ELSE NoPrior]] :
        fr \in [1..NPars -> BOOLEAN], pr \in [1..NPars -> BOOLEAN] }

\* Parameters.free_parameters: the references (indices) of the parameters
\* that are not frozen, in the order of the model set.
RECURSIVE FreeUpTo(_, _)
FreeUpTo(ps, n) ==
    IF n = 0 THEN <<>>
    ELSE IF ps[n].frozen THEN FreeUpTo(ps, n - 1)
         ELSE Append(FreeUpTo(ps, n - 1), n)
free_parameters(ps) == FreeUpTo(ps, Len(ps))

\* datasets._stat_sum_likelihood(): a chi-square-like statistic of the
\* current values of all parameters of the model set.
Observed(i) == 10 * i + 2
stat_sum(ps) ==
    SumTo([i \in 1..Len(ps) |-> (ps[i].value - Observed(i)) * (ps[i].value - Observed(i))],
          Len(ps))

\* Parameters.value = values : the vectorized value assignment, in the order
\* of the free parameters.
SetValues(ps, free, values) ==
    [k \in 1..Len(ps) |->
        IF \E i \in DOMAIN free : free[i] = k
        THEN [ps[k] EXCEPT !.value = values[CHOOSE i \in DOMAIN free : free[i] = k]]
        ELSE ps[k]]

(* ------------------------------ state ---------------------------------- *)
VARIABLES
    ctor,           \* "none" | "ok" | the exception Sampler.__init__ raised
    backend,        \* Sampler.backend
    sampler_opts,   \* Sampler.sampler_opts
    sampler,        \* Sampler._sampler: the engine handle, or NoSampler
    pc,             \* position of Sampler.run
    error,          \* the exception that reached the caller, or "None"
    models,         \* the parameters of the model set (datasets.models.parameters)
    covariance,     \* models.covariance
    parameters,     \* run's local: the free parameters (references)
    pending,        \* the point the engine got from the prior transform
    ncall,          \* likelihood evaluations the engine has made
    nfunction,      \* calls of SamplerLikelihood.function
    fcnArg,         \* argument of the last call of fcn, or <<>> before any
    fcnRet2,        \* twice the value the last call of fcn returned
    engineResult,   \* the payload the engine returned, or NoResult
    result,         \* the SamplerResult of run, or NoSamplerResult
    returned,       \* TRUE once run has returned result to its caller
    upd,            \* the last call of _update_models: arguments and outcome
    nupdates,       \* calls of _update_models made from run
    models0,        \* the parameters as they were when run was invoked
    engineRaised,   \* the exception raised inside the engine, or "None"
    simPc,          \* position of SpectrumSimulation.run: "idle" | "loop" | "done"
    simSeeds,       \* the seeds handed to SpectrumSimulation.run
    simBackground,  \* TRUE when a background model and alpha are configured
    simRng,         \* state of the simulation's random generator, or NoRng
    simObs,         \* SpectrumSimulation.obs: the last simulated observation
    simResult       \* SpectrumSimulation.result: the observations of the batch

samplerVars == <<ctor, backend, sampler_opts, sampler, pc, error, models, covariance,
                 parameters, pending, ncall, nfunction, fcnArg, fcnRet2, engineResult,
                 result, returned, upd, nupdates, models0, engineRaised>>
simVars == <<simPc, simSeeds, simBackground, simRng, simObs, simResult>>
vars == <<samplerVars, simVars>>

NoSampler == [made |-> FALSE, stepsampler |-> FALSE]
NoCovariance == [dim |-> -1, data |-> <<>>]
NoPending == [set |-> FALSE, values |-> <<>>]
NoResult == [ncall |-> -1, converged |-> FALSE,
             posterior |-> [mean |-> <<>>, stdev |-> <<>>], samples |-> <<>>]
NoModels == [set |-> FALSE, parameters |-> <<>>, covariance |-> NoCovariance]
NoSamplerResult == [made |-> FALSE, nfev |-> 0, success |-> FALSE, models |-> NoModels,
                    samples |-> <<>>, sampler_results |-> NoResult]
NoUpdate == [status |-> "none", results |-> NoResult, before |-> <<>>, free |-> <<>>]
NoOpts == [set |-> FALSE]

(* ------------------------- Sampler.__init__ ---------------------------- *)
\* default_opts of the "ultranest" branch
DefaultOpts == [live_points |-> 200, frac_remain |-> "0.5", log_dir |-> "None",
                resume |-> "subfolder", step_sampler |-> FALSE, nsteps |-> 20]

\* dict.update
DictUpdate(d, u) ==
    [k \in (DOMAIN d) \cup (DOMAIN u) |-> IF k \in DOMAIN u THEN u[k] ELSE d[k]]

\* The sampler_opts arguments tried: None, or a dict overriding some option.
OptsArgs == { [given |-> FALSE, opts |-> [step_sampler |-> FALSE]],
              [given |-> TRUE, opts |-> [step_sampler |-> TRUE]],
              [given |-> TRUE, opts |-> [live_points |-> 400]] }

\* default_opts is bound only in the "ultranest" branch: for any other
\* backend the assignment of line 43 reads an unbound local.
InitOutcome(b) == IF b = "ultranest" THEN "ok" ELSE "UnboundLocalError"

InitOpts(arg) == IF arg.given THEN DictUpdate(DefaultOpts, arg.opts) ELSE DefaultOpts

Construct(b, arg) ==
    /\ ctor = "none"
    /\ backend' = b
    /\ ctor' = InitOutcome(b)
    /\ sampler_opts' = IF InitOutcome(b) = "ok" THEN InitOpts(arg) ELSE sampler_opts
    /\ UNCHANGED simVars
    /\ UNCHANGED <<sampler, pc, error, models, covariance, parameters, pending, ncall,
                   nfunction, fcnArg, fcnRet2, engineResult, result, returned, upd,
                   nupdates, models0, engineRaised>>

(* ----------------------- Sampler._update_models ------------------------ *)
\* A faulty loop: it writes the i-th parameter of the model set instead of
\* the i-th free parameter.
RECURSIVE UpdateLoopByPosition(_, _, _, _, _)
UpdateLoopByPosition(ps, free, mean, stdev, i) ==
    IF i > Len(free) THEN [ps |-> ps, error |-> "None"]
    ELSE IF i > Len(mean) THEN [ps |-> ps, error |-> "IndexError"]
    ELSE LET withValue == [ps EXCEPT ![i].value = mean[i]]
         IN  IF i > Len(stdev) THEN [ps |-> withValue, error |-> "IndexError"]
             ELSE UpdateLoopByPosition([withValue EXCEPT ![i].error = stdev[i]],
                                       free, mean, stdev, i + 1)

\* The loop of lines 51-53 from position i on.  posterior["mean"][i] and
\* posterior["stdev"][i] raise IndexError past the end of the list, after
\* the earlier assignments have been made.
RECURSIVE UpdateLoop(_, _, _, _, _)
UpdateLoop(ps, free, mean, stdev, i) ==
    IF i > Len(free) THEN [ps |-> ps, error |-> "None"]
    ELSE IF i > Len(mean) THEN [ps |-> ps, error |-> "IndexError"]
    ELSE LET withValue == [ps EXCEPT ![free[i]].value = mean[i]]
         IN  IF i > Len(stdev) THEN [ps |-> withValue, error |-> "IndexError"]
             ELSE UpdateLoop([withValue EXCEPT ![free[i]].error = stdev[i]],
                             free, mean, stdev, i + 1)

\* Number of columns of a sample matrix (a sequence of rows).
NumCols(samples) == IF Len(samples) = 0 THEN 0 ELSE Len(samples[1])

\* np.cov(samples.T): the sample covariance of the columns, N-1 denominator,
\* kept multiplied by M * (M - 1) for M = number of rows.
np_cov(samples) ==
    LET M == Len(samples)
        C == NumCols(samples)
        Col(j) == [r \in 1..M |-> samples[r][j]]
        Prod(j, k) == [r \in 1..M |-> samples[r][j] * samples[r][k]]
    IN  [j \in 1..C |-> [k \in 1..C |->
            M * SumTo(Prod(j, k), M) - SumTo(Col(j), M) * SumTo(Col(k), M)]]

\* Covariance.from_factor_matrix(parameters, matrix): a covariance aligned
\* with the free parameters; a matrix of another dimension is a ValueError.
from_factor_matrix(free, matrix) ==
    IF Len(matrix) = Len(free)
    THEN [cov |-> [dim |-> Len(free), data |-> matrix], error |-> "None"]
    ELSE [cov |-> NoCovariance, error |-> "ValueError"]

\* _update_models(models, results): the parameters and covariance it leaves
\* behind and the exception it raised ("None" when it returned).
update_models(ps, cov, results) ==
    LET free == free_parameters(ps)
        loop == UpdateLoop(ps, free, results.posterior.mean, results.posterior.stdev, 1)
        built == from_factor_matrix(free, np_cov(results.samples))
    IN  IF loop.error # "None" THEN [ps |-> loop.ps, cov |-> cov, error |-> loop.error]
        ELSE IF built.error # "None" THEN [ps |-> loop.ps, cov |-> cov, error |-> built.error]
        ELSE [ps |-> loop.ps, cov |-> built.cov, error |-> "None"]

\* The record kept of a call of _update_models.
UpdateRecord(ps, results, out) ==
    [status |-> IF out.error = "None" THEN "ok" ELSE out.error,
     results |-> results, before |-> ps, free |-> free_parameters(ps)]

(* ----------------------- the engine's payloads ------------------------- *)
MeanList(m, n) == [i \in 1..n |-> m + i]
StdevList(s, n) == [i \in 1..n |-> s * i]
SampleMatrix(kind, ncols) ==
    [r \in 1..NumDraws |-> [c \in 1..ncols |->
        IF kind = "a" THEN r * c ELSE (r * r + c * c) % 5]]

\* What ultranest returns for n parameters after nc likelihood calls.
EnginePayloads(n, nc) ==
    { [ncall |-> nc, converged |-> cv,
       posterior |-> [mean |-> MeanList(m, n), stdev |-> StdevList(s, n)],
       samples |-> SampleMatrix(k, n)] :
        cv \in BOOLEAN, m \in PostMeans, s \in PostStdevs, k \in SampleKinds }

\* Any results dictionary a caller may hand to _update_models directly.
AnyResults ==
    { [ncall |-> 0, converged |-> TRUE,
       posterior |-> [mean |-> MeanList(m, lm), stdev |-> StdevList(s, ls)],
       samples |-> SampleMatrix(k, nc)] :
        m \in PostMeans, s \in PostStdevs, k \in SampleKinds,
        lm \in 0..MaxPostLen, ls \in 0..MaxPostLen, nc \in 0..MaxPostLen }

\* A direct call of the static method Sampler._update_models(models, results).
CallUpdateModels(results) ==
    /\ upd.status = "none"
    /\ LET out == update_models(models, covariance, results)
       IN  /\ models' = out.ps
           /\ covariance' = out.cov
           /\ error' = out.error
           /\ upd' = UpdateRecord(models, results, out)
    /\ UNCHANGED simVars
    /\ UNCHANGED <<ctor, backend, sampler_opts, sampler, pc, parameters, pending, ncall,
                   nfunction, fcnArg, fcnRet2, engineResult, result, returned,
                   nupdates, models0, engineRaised>>

(* ---------------------- SamplerLikelihood.fcn -------------------------- *)
\* A faulty assignment: it resets the errors of the parameters it writes.
fcn_assign_resetting(ps, free, value) ==
    [k \in 1..Len(ps) |->
        IF \E i \in DOMAIN free : free[i] = k
        THEN [SetValues(ps, free, value)[k] EXCEPT !.error = 0]
        ELSE ps[k]]

\* line 176: self.parameters.value = value
fcn_assign(ps, free, value) == SetValues(ps, free, value)

\* A faulty evaluation: the statistic of the parameters before the assignment.
fcn_function_stale(ps0, ps1) == stat_sum(ps0)

\* line 177: self.function() is evaluated on the parameters as they are
\* after the assignment (ps0: before it, ps1: after it).
fcn_function(ps0, ps1) == stat_sum(ps1)

\* line 177: total_stat = -0.5 * stat, kept doubled
fcn_total_stat2(stat) == 0 - stat

(* --------------------- Sampler.sampler_ultranest ----------------------- *)
\* line 66: None in parameters.  parameters holds references to Parameter
\* objects (1..NPars); range 0 stands for the null reference.
NoneInParameters(free) == \E i \in DOMAIN free : free[i] = 0

\* _prior_inverse_cdf(values), lines 65-70: the transformed point, or the
\* exception raised.  par.prior._inverse_cdf on a prior that is None is an
\* AttributeError.
prior_inverse_cdf(ps, free, values) ==
    IF NoneInParameters(free)
    THEN [error |-> "ValueError", point |-> <<>>]
    ELSE IF \E i \in DOMAIN free : ps[free[i]].prior = NoPrior
    THEN [error |-> "AttributeError", point |-> <<>>]
    ELSE [error |-> "None",
          point |-> [i \in DOMAIN free |-> InverseCdf(ps[free[i]].prior, values[i])]]

\* lines 73-86: the engine object, with a step sampler when the option is set
MakeSampler(opts) ==
    [made |-> TRUE, stepsampler |-> opts.step_sampler]

(* ---------------------------- Sampler.run ------------------------------ *)
\* A faulty propagation: the exception re-wrapped.
PropagateWrapped(e) == "SamplerError"

\* line 104: run calls sampler_ultranest, and sampler_ultranest the engine
\* (lines 73, 88), outside any try block: what the engine raises is what
\* the caller of run gets.
Propagate(e) == e

\* lines 96-104, up to the construction of the engine, which from then on
\* calls the two callbacks; any other backend raises ValueError (line 113).
RunStart ==
    /\ ctor = "ok"
    /\ pc = "idle"
    /\ parameters' = free_parameters(models)
    /\ models0' = models
    /\ IF backend = "ultranest"
       THEN /\ sampler' = MakeSampler(sampler_opts)
            /\ pc' = "engine"
            /\ error' = error
       ELSE /\ sampler' = sampler
            /\ pc' = "failed"
            /\ error' = "ValueError"
    /\ UNCHANGED simVars
    /\ UNCHANGED <<ctor, backend, sampler_opts, models, covariance, pending, ncall,
                   nfunction, fcnArg, fcnRet2, engineResult, result, returned, upd,
                   nupdates, engineRaised>>

\* The engine draws a point u of the unit cube and calls the transform;
\* an exception of the callback ends the engine and run.
EngineTransform(u) ==
    /\ pc = "engine"
    /\ ~pending.set
    /\ ncall < MaxCalls
    /\ LET t == prior_inverse_cdf(models, parameters, u)
       IN  IF t.error = "None"
           THEN /\ pending' = [set |-> TRUE, values |-> t.point]
                /\ UNCHANGED <<pc, error, engineRaised>>
           ELSE /\ pc' = "failed"
                /\ engineRaised' = t.error
                /\ error' = Propagate(t.error)
                /\ UNCHANGED pending
    /\ UNCHANGED simVars
    /\ UNCHANGED <<ctor, backend, sampler_opts, sampler, models, covariance, parameters,
                   ncall, nfunction, fcnArg, fcnRet2, engineResult, result, returned,
                   upd, nupdates, models0>>

\* The engine evaluates the likelihood callback like.fcn on the point.
EngineLike ==
    /\ pc = "engine"
    /\ pending.set
    /\ LET ps1 == fcn_assign(models, parameters, pending.values)
       IN  /\ models' = ps1
           /\ fcnRet2' = fcn_total_stat2(fcn_function(models, ps1))
    /\ fcnArg' = pending.values
    /\ nfunction' = nfunction + 1
    /\ ncall' = ncall + 1
    /\ pending' = NoPending
    /\ UNCHANGED simVars
    /\ UNCHANGED <<ctor, backend, sampler_opts, sampler, pc, error, covariance,
                   parameters, engineResult, result, returned, upd, nupdates, models0, engineRaised>>

\* The engine raises.
EngineFail(e) ==
    /\ pc = "engine"
    /\ pc' = "failed"
    /\ engineRaised' = e
    /\ error' = Propagate(e)
    /\ UNCHANGED simVars
    /\ UNCHANGED <<ctor, backend, sampler_opts, sampler, models, covariance, parameters,
                   pending, ncall, nfunction, fcnArg, fcnRet2, engineResult, result,
                   returned, upd, nupdates, models0>>

\* The engine returns its result dictionary (line 88-93).
EngineReturn(payload) ==
    /\ pc = "engine"
    /\ ~pending.set
    /\ engineResult' = payload
    /\ pc' = "update"
    /\ UNCHANGED simVars
    /\ UNCHANGED <<ctor, backend, sampler_opts, sampler, error, models, covariance,
                   parameters, pending, ncall, nfunction, fcnArg, fcnRet2, result,
                   returned, upd, nupdates, models0, engineRaised>>

\* lines 106-107: self._update_models(datasets.models, result)
RunUpdate ==
    /\ pc = "update"
    /\ LET out == update_models(models, covariance, engineResult)
       IN  /\ models' = out.ps
           /\ covariance' = out.cov
           /\ upd' = UpdateRecord(models, engineResult, out)
           /\ IF out.error = "None"
              THEN pc' = "build" /\ error' = error
              ELSE pc' = "failed" /\ error' = out.error
    /\ nupdates' = nupdates + 1
    /\ UNCHANGED simVars
    /\ UNCHANGED <<ctor, backend, sampler_opts, sampler, parameters, pending, ncall,
                   nfunction, fcnArg, fcnRet2, engineResult, result, returned, models0, engineRaised>>

\* SamplerResult.from_ultranest, lines 150-156 (models keeps its default None)
from_ultranest(r) ==
    [made |-> TRUE, nfev |-> r.ncall, success |-> r.converged, models |-> NoModels,
     samples |-> r.samples, sampler_results |-> r]

\* line 109
RunBuildResult ==
    /\ pc = "build"
    /\ result' = from_ultranest(engineResult)
    /\ pc' = "attach"
    /\ UNCHANGED simVars
    /\ UNCHANGED <<ctor, backend, sampler_opts, sampler, error, models, covariance,
                   parameters, pending, ncall, nfunction, fcnArg, fcnRet2, engineResult,
                   returned, upd, nupdates, models0, engineRaised>>

\* A faulty attachment: it also overwrites the evaluation count.
AttachModelsAndCount(res, ps, cov) ==
    [res EXCEPT !.models = [set |-> TRUE, parameters |-> ps, covariance |-> cov],
                !.nfev = res.nfev + 1]

\* line 110: result.models = datasets.models.copy()
AttachModels(res, ps, cov) ==
    [res EXCEPT !.models = [set |-> TRUE, parameters |-> ps, covariance |-> cov]]

RunAttachModels ==
    /\ pc = "attach"
    /\ result' = AttachModels(result, models, covariance)
    /\ pc' = "return"
    /\ UNCHANGED simVars
    /\ UNCHANGED <<ctor, backend, sampler_opts, sampler, error, models, covariance,
                   parameters, pending, ncall, nfunction, fcnArg, fcnRet2, engineResult,
                   returned, upd, nupdates, models0, engineRaised>>

\* line 111
RunReturn ==
    /\ pc = "return"
    /\ returned' = TRUE
    /\ pc' = "done"
    /\ UNCHANGED simVars
    /\ UNCHANGED <<ctor, backend, sampler_opts, sampler, error, models, covariance,
                   parameters, pending, ncall, nfunction, fcnArg, fcnRet2, engineResult,
                   result, upd, nupdates, models0, engineRaised>>

(* ----------------------- SpectrumSimulation ---------------------------- *)
\* The generator: a linear congruential generator on 0..RngMod-1.
NoRng == 0 - 1
get_random_state(seed) == seed % 16
NextRng(state) == (5 * state + 3) % 16

\* Expected counts per reconstructed-energy bin: the source model, and the
\* background model, folded through the responses and scaled by livetime.
ExpectedSource(b) == 2 + b
ExpectedBackground(b) == 1 + b
\* 1 / alpha for alpha = 1/3
InvAlpha == 3

\* A Poisson draw of mean mu made with generator state st: a count in 0..2*mu.
PoissonDraw(st, mu) == (st * 7 + mu) % (2 * mu + 1)

\* The generator states used for the draws: k-th state after st.
RECURSIVE RngAfter(_, _)
RngAfter(st, k) == IF k = 0 THEN st ELSE NextRng(RngAfter(st, k - 1))

\* simulate_obs with a generator in state st: the "on" vector is drawn bin
\* by bin, then (with background) the "off" vector with the same generator.
DrawObs(st, bkg, id) ==
    [obs_id |-> id,
     on_vector |-> [b \in 1..NumBins |->
        PoissonDraw(RngAfter(st, b),
                    ExpectedSource(b) + (IF bkg THEN ExpectedBackground(b) ELSE 0))],
     off_vector |-> IF bkg
        THEN [b \in 1..NumBins |->
                PoissonDraw(RngAfter(st, NumBins + b), InvAlpha * ExpectedBackground(b))]
        ELSE <<>>,
     rng |-> RngAfter(st, IF bkg THEN 2 * NumBins ELSE NumBins)]

\* simulate_one(seed): a fresh generator seeded from seed.
simulate_obs(seed, bkg) == DrawObs(get_random_state(seed), bkg, seed)

\* A faulty batch: the generator is seeded once and carried on.
RunRandomStateCarried(st, seed) == IF st = NoRng THEN get_random_state(seed) ELSE st

\* The generator the batch loop uses for one seed, given the state st the
\* previous seed left behind: it is seeded anew.
RunRandomState(st, seed) == get_random_state(seed)

\* The identifier the batch gives the observation at position i, of seed seed.
RunObsId(i, seed) == seed

\* A faulty batch: the newest observation is put first.
RunPrepend(res, obs) == <<obs>> \o res

\* The batch result with the new observation added.
RunAppend(res, obs) == Append(res, obs)

NoObs == [obs_id |-> 0 - 1, on_vector |-> <<>>, off_vector |-> <<>>]
Observation(d) == [obs_id |-> d.obs_id, on_vector |-> d.on_vector, off_vector |-> d.off_vector]

\* sim.simulate_obs(seed=...) called on its own (test_without_background,
\* test_with_background).
SimulateObs(seed) ==
    /\ simPc = "idle"
    /\ LET d == simulate_obs(seed, simBackground)
       IN  simObs' = Observation(d) /\ simRng' = d.rng
    /\ UNCHANGED <<simPc, simSeeds, simResult, simBackground>>
    /\ UNCHANGED samplerVars

\* sim.run(seed=seeds): reset, then one observation per seed
SimRun(seeds) ==
    /\ simPc = "idle"
    /\ simSeeds' = seeds
    /\ simResult' = <<>>
    /\ simPc' = "loop"
    /\ UNCHANGED <<simBackground, simRng, simObs>>
    /\ UNCHANGED samplerVars

SimRunStep ==
    /\ simPc = "loop"
    /\ Len(simResult) < Len(simSeeds)
    /\ LET i == Len(simResult) + 1
           seed == simSeeds[i]
           d == DrawObs(RunRandomState(simRng, seed), simBackground, RunObsId(i, seed))
       IN  /\ simObs' = Observation(d)
           /\ simRng' = d.rng
           /\ simResult' = RunAppend(simResult, Observation(d))
    /\ UNCHANGED <<simPc, simSeeds, simBackground>>
    /\ UNCHANGED samplerVars

SimRunDone ==
    /\ simPc = "loop"
    /\ Len(simResult) >= Len(simSeeds)
    /\ simPc' = "done"
    /\ UNCHANGED <<simSeeds, simBackground, simRng, simObs, simResult>>
    /\ UNCHANGED samplerVars

(* --------------------------- specifications ---------------------------- *)
InitSampler ==
    /\ ctor = "none"
    /\ backend = "None"
    /\ sampler_opts = NoOpts
    /\ sampler = NoSampler
    /\ pc = "idle"
    /\ error = "None"
    /\ covariance = NoCovariance
    /\ parameters = <<>>
    /\ pending = NoPending
    /\ ncall = 0
    /\ nfunction = 0
    /\ fcnArg = <<>>
    /\ fcnRet2 = 0
    /\ engineResult = NoResult
    /\ result = NoSamplerResult
    /\ returned = FALSE
    /\ upd = NoUpdate
    /\ nupdates = 0
    /\ models0 = <<>>
    /\ engineRaised = "None"

InitSimulation ==
    /\ simPc = "idle"
    /\ simSeeds = <<>>
    /\ simRng = NoRng
    /\ simObs = NoObs
    /\ simResult = <<>>

\* A model set with any mix of free and frozen parameters, with and without
\* priors; no Sampler constructed yet; an idle simulation without background.
Init ==
    /\ InitSampler
    /\ models \in InitialParameters
    /\ InitSimulation
    /\ simBackground = FALSE

\* One Sampler: constructed, then run once on the datasets.
Next ==
    \/ \E b \in Backends, arg \in OptsArgs : Construct(b, arg)
    \/ RunStart
    \/ \E u \in [1..Len(parameters) -> CubeVals] : EngineTransform(u)
    \/ EngineLike
    \/ \E e \in EngineErrors : EngineFail(e)
    \/ \E payload \in EnginePayloads(Len(parameters), ncall) : EngineReturn(payload)
    \/ RunUpdate
    \/ RunBuildResult
    \/ RunAttachModels
    \/ RunReturn

Spec == Init /\ [][Next]_vars

\* The static method _update_models called directly on a model set.
NextUpdate == \E results \in AnyResults : CallUpdateModels(results)

SpecUpdate == Init /\ [][NextUpdate]_vars

\* The simulation: single observations, then one batch run.
NextSim ==
    \/ \E seed \in SeedVals : SimulateObs(seed)
    \/ \E seeds \in SeqsUpTo(SeedVals, MaxSeeds) : SimRun(seeds)
    \/ SimRunStep
    \/ SimRunDone

\* A simulation with or without background; the model set plays no part.
InitSim ==
    /\ InitSampler
    /\ models = CHOOSE ps \in InitialParameters : TRUE
    /\ InitSimulation
    /\ simBackground \in BOOLEAN

SpecSim == InitSim /\ [][NextSim]_vars

(* ------------------------------ claims --------------------------------- *)
\* Whether the inputs of the recorded call of _update_models agree in size.
UpdConsistent ==
    /\ Len(upd.results.posterior.mean) = Len(upd.free)
    /\ Len(upd.results.posterior.stdev) = Len(upd.free)
    /\ NumCols(upd.results.samples) = Len(upd.free)

\* C1: after _update_models has returned, the i-th free parameter holds
\* posterior mean[i] as value and posterior stdev[i] as error, for every i in
\* free-parameter order; the covariance built from the samples is attached
\* to the model set; every frozen parameter is as it was, and no parameter
\* changed its frozen flag or prior.
C1_UpdateSetsFreeParameters ==
    upd.status = "ok" =>
        /\ \A i \in DOMAIN upd.free :
              /\ models[upd.free[i]].value = upd.results.posterior.mean[i]
              /\ models[upd.free[i]].error = upd.results.posterior.stdev[i]
        /\ covariance.dim = Len(upd.free)
        /\ covariance.data = np_cov(upd.results.samples)
        /\ \A k \in DOMAIN models :
              /\ upd.before[k].frozen => models[k] = upd.before[k]
              /\ models[k].frozen = upd.before[k].frozen
              /\ models[k].prior = upd.before[k].prior

\* C1 witness: an update that returned, on a model set with two free
\* parameters and a frozen one before the second of them, so that free
\* position 2 is not parameter 2.
C1_Witness ==
    /\ upd.status = "ok"
    /\ Len(upd.free) >= 2
    /\ upd.free[2] # 2
    /\ models[upd.free[2]].value # upd.before[upd.free[2]].value

\* C5: a call of _update_models whose free parameters, posterior means,
\* posterior stdevs and sample columns do not all have the same size fails
\* with ConfigurationError and changes no parameter.
C5_UpdateRejectsInconsistentInputs ==
    (upd.status # "none" /\ ~UpdConsistent) =>
        /\ error = "ConfigurationError"
        /\ models = upd.before

\* C2: after a call of fcn with vector v the free parameters hold v, the
\* value returned is -0.5 times the statistic of the parameters holding v
\* (fcnRet2 is twice the returned value), and the underlying function has
\* been called once per call of fcn.
C2_FcnReturnsMinusHalfStat ==
    /\ nfunction = ncall
    /\ (pc = "engine" /\ ncall >= 1) =>
          /\ Len(fcnArg) = Len(parameters)
          /\ \A i \in DOMAIN parameters : models[parameters[i]].value = fcnArg[i]
          /\ fcnRet2 = 0 - stat_sum(models)

\* C2 witness: the engine has made all its likelihood calls, on a point that
\* moved at least one free parameter.
C2_Witness ==
    /\ pc = "engine"
    /\ ncall = MaxCalls
    /\ Len(fcnArg) >= 1
    /\ models # models0

\* C3: when a free parameter has no prior, run fails with MissingPriorError
\* before the engine is created.
C3_MissingPriorFailsBeforeEngine ==
    (pc # "idle" /\ \E i \in DOMAIN parameters : models0[parameters[i]].prior = NoPrior) =>
        /\ pc = "failed"
        /\ error = "MissingPriorError"
        /\ ~sampler.made
        /\ nfunction = 0

\* C4: a Sampler given a backend other than "ultranest" is constructed, and
\* its run fails with a configuration error before anything else is done.
C4_UnsupportedBackendFailsAtRun ==
    (backend # "None" /\ backend # "ultranest") =>
        /\ ctor = "ok"
        /\ pc # "idle" =>
              /\ pc = "failed"
              /\ error = "ConfigurationError"
              /\ ~sampler.made
              /\ nfunction = 0
              /\ models = models0

\* C6 as stated: no field of a SamplerResult is assigned after its
\* construction.
C6_ResultNeverAssigned == [][result.made => result' = result]_vars

\* C6 amended: nfev, success, samples and sampler_results keep the values of
\* construction; models is assigned once, by run, between construction and
\* return, and holds the updated model set; nothing is assigned once run
\* has returned the result.
C6_ResultAssignedOnlyModelsBeforeReturn ==
    [][result.made =>
        /\ result'.made
        /\ result'.nfev = result.nfev
        /\ result'.success = result.success
        /\ result'.samples = result.samples
        /\ result'.sampler_results = result.sampler_results
        /\ result'.models # result.models =>
              /\ ~returned /\ ~returned'
              /\ ~result.models.set
              /\ result'.models = [set |-> TRUE, parameters |-> models,
                                   covariance |-> covariance]
        /\ returned => result' = result]_vars

\* C6 witness: run has returned a result whose models field was assigned.
C6_Witness ==
    /\ returned
    /\ result.made
    /\ result.models.set
    /\ result.nfev >= 1

\* C9 as stated: while run is under way nothing but _update_models changes
\* the parameters of the model set.
C9_OnlyUpdateMutatesParameters == [][models' # models => pc = "update"]_vars

\* C9 amended: the likelihood evaluations of the engine change the values
\* of the free parameters (to the point evaluated) and nothing else; errors
\* and covariance are changed by _update_models alone, which has not run
\* while the engine runs and has run to completion exactly once, on the
\* engine's result, whenever run is building or has built its SamplerResult.
C9_FcnAndUpdateMutateParameters ==
    /\ pc \in {"engine", "update"} =>
          /\ nupdates = 0
          /\ upd.status = "none"
          /\ covariance = NoCovariance
          /\ ~result.made
          /\ \A k \in DOMAIN models :
                /\ models[k].error = models0[k].error
                /\ models0[k].frozen => models[k] = models0[k]
          /\ ncall = 0 => models = models0
          /\ ncall >= 1 =>
                \A i \in DOMAIN parameters : models[parameters[i]].value = fcnArg[i]
    /\ pc = "update" => engineResult # NoResult
    /\ pc \in {"build", "attach", "return", "done"} =>
          /\ nupdates = 1
          /\ upd.status = "ok"
          /\ upd.results = engineResult
          /\ \A i \in DOMAIN parameters :
                /\ models[parameters[i]].value = engineResult.posterior.mean[i]
                /\ models[parameters[i]].error = engineResult.posterior.stdev[i]
          /\ \A k \in DOMAIN models : models0[k].frozen => models[k] = models0[k]
    /\ result.made => nupdates = 1

\* C9 witness: run has returned after an engine run that evaluated the
\* likelihood, on a model set with a free and a frozen parameter.
C9_Witness ==
    /\ pc = "done"
    /\ ncall >= 1
    /\ nupdates = 1
    /\ Len(parameters) >= 1
    /\ \E k \in DOMAIN models : models[k].frozen

C7_BatchKeepsSeedOrder ==
    /\ Len(simResult) <= Len(simSeeds)
    /\ \A i \in DOMAIN simResult : simResult[i].obs_id = simSeeds[i]
    /\ simPc = "done" => Len(simResult) = Len(simSeeds)

\* C7 witness: a finished batch whose seeds repeat and are not ascending.
C7_Witness ==
    /\ simPc = "done"
    /\ \E i, j \in DOMAIN simSeeds : i < j /\ simSeeds[i] = simSeeds[j]
    /\ \E i, j \in DOMAIN simSeeds : i < j /\ simSeeds[i] > simSeeds[j]

\* C8: the observation at each position of the batch result has the count
\* vectors of simulate_obs run on its own with the seed of that position.
C8_BatchEqualsIsolatedRuns ==
    \A i \in DOMAIN simResult :
        /\ simResult[i].on_vector = simulate_obs(simSeeds[i], simBackground).on_vector
        /\ simResult[i].off_vector = simulate_obs(simSeeds[i], simBackground).off_vector

\* C8 witness: a finished batch with background, of at least two different
\* seeds, run after a single simulation had used the generator.
C8_Witness ==
    /\ simPc = "done"
    /\ simBackground
    /\ Len(simResult) >= 2
    /\ simResult[1].on_vector # simResult[2].on_vector
    /\ Len(simResult[1].off_vector) = NumBins

====
